---- MODULE Spec2Model ----
(***************************************************************************)
(* Session / token lifecycle and realtime delivery of the chat backend.    *)
(*                                                                         *)
(* Modelled from the source tree:                                          *)
(*   routes/auth_routes.py    register, login, make_access_token,          *)
(*                            make_refresh_token                           *)
(*   core/security.py         hash_password, verify_password,              *)
(*                            create_access_token, create_refresh_token,   *)
(*                            decode_token                                 *)
(*   core/config.py           Settings                                     *)
(*   db/models.py             User, RefreshToken, Message                  *)
(*   routes/message_routes.py user_from_token, send_message,               *)
(*                            websocket_chat                               *)
(*   sockets/chat_manager.py  ConnectionManager                            *)
(*   main.py                  _delete_accounts_logged_out_over_cutoff_loop *)
(*                                                                         *)
(* The source tree declares the refresh-token table and the codec that     *)
(* mints tokens carrying a jti, but holds no handler that persists or      *)
(* rotates a RefreshToken row.  Those handlers (the Session Manager of     *)
(* spec section 4.2: session login, refresh, logout) are modelled from the *)
(* specification and are marked as such where they are defined.            *)
(*                                                                         *)
(* Time is a discrete clock; every handler reads the clock once.  A        *)
(* handler that awaits (a refresh, a register, a websocket, a message      *)
(* send) is cut at its awaits, and a commit or a send_json that can raise  *)
(* does either.                                                            *)
(*                                                                         *)
(* Specifications:                                                         *)
(*   Spec          the token lifecycle: both logins, refresh, logout,      *)
(*                 access-token check                                      *)
(*   SpecLogin     the part of it that is entirely in the source tree      *)
(*   SpecSession   the Session Manager over the declared table and codec   *)
(*   SpecRotation  SpecSession with rotations cancelled before the commit  *)
(*   SpecAccess    the access-token check over Session Manager tokens      *)
(*   SpecRegister  register requests running side by side                  *)
(*   SpecChat      websocket_chat, send_message and the registry           *)
(*   SpecJanitor   logins, logouts and the passes of the account janitor   *)
(***************************************************************************)
EXTENDS Integers, Sequences, FiniteSets, TLC

(* ------------------------------ bounds -------------------------------- *)
\* last clock value
MaxTime == 3
\* how many refresh-token rows (jti values) the store may ever hold
MaxJti == 3
\* lifetimes, in clock ticks (all are read from the environment)
ACCESS_TOKEN_EXPIRE_MINUTES == 2
REFRESH_TOKEN_EXPIRE_DAYS == 2
REFRESH_INACTIVITY_DAYS == 2
ACCOUNT_DELETE_AFTER_LOGOUT_DAYS == 1

\* a NULL column
NULL == -1

\* handles presented at login, and the ones that get registered
Handles == {"+14155550001", "+14155550002"}
RegHandles == {"+14155550001"}
RegPasswords == {"Secret123"}
Passwords == {"Secret123", "Wrong456"}
\* the value of the SECRET_KEY environment variable of the deployment (when it
\* is unset the two modules fall back to different defaults; it is set here)
EnvSecret == "env-secret"
\* concurrent refresh requests
Procs == {1, 2}

(* --------------------------- pure helpers ----------------------------- *)
\* str(user.id)
str(n) == CASE n = 1 -> "1" [] n = 2 -> "2" [] n = 3 -> "3" [] OTHER -> "n"

\* passlib bcrypt: the hash is a tagged digest, never the plain text
hash_password(plain) == <<"bcrypt", plain>>

verify_password(plain, hashed) == hashed = hash_password(plain)

\* os.getenv("SECRET_KEY", ...) in routes/auth_routes.py
SECRET_KEY == EnvSecret

\* os.getenv("SECRET_KEY", ...) in core/config.py
settings_SECRET_KEY == EnvSecret

NoJti == 0

\* the absence of a token in a request or response
NoToken == [sub |-> "", type |-> "none", jti |-> NoJti, iat |-> 0, exp |-> 0, key |-> ""]

\* a token that was not signed with any key of the server
ForgedToken == [sub |-> "+14155550001", type |-> "access", jti |-> NoJti,
                iat |-> 0, exp |-> MaxTime + 10, key |-> "attacker"]

make_access_token(sub, t) ==
    [sub |-> sub, type |-> "access", jti |-> NoJti, iat |-> t,
     exp |-> t + ACCESS_TOKEN_EXPIRE_MINUTES, key |-> SECRET_KEY]

make_refresh_token(sub, t) ==
    [sub |-> sub, type |-> "refresh", jti |-> NoJti, iat |-> t,
     exp |-> t + REFRESH_TOKEN_EXPIRE_DAYS, key |-> SECRET_KEY]

create_access_token(sub, t) ==
    [sub |-> sub, type |-> "access", jti |-> NoJti, iat |-> t,
     exp |-> t + ACCESS_TOKEN_EXPIRE_MINUTES, key |-> settings_SECRET_KEY]

\* create_refresh_token with a window one tick too long
create_refresh_token_long(sub, jti, t) ==
    [token |-> [sub |-> sub, type |-> "refresh", jti |-> jti, iat |-> t,
                exp |-> t + REFRESH_INACTIVITY_DAYS + 1, key |-> settings_SECRET_KEY],
     jti |-> jti,
     exp |-> t + REFRESH_INACTIVITY_DAYS + 1]

\* returns (token, jti, exp); jti is the fresh uuid4 drawn by the caller's counter
create_refresh_token(sub, jti, t) ==
    [token |-> [sub |-> sub, type |-> "refresh", jti |-> jti, iat |-> t,
                exp |-> t + REFRESH_INACTIVITY_DAYS, key |-> settings_SECRET_KEY],
     jti |-> jti,
     exp |-> t + REFRESH_INACTIVITY_DAYS]

\* jwt.decode: the signature first, then exp (PyJWT 2 raises
\* ExpiredSignatureError when exp <= now); "ok" stands for the returned
\* payload, which is the token's claims
decode_token(token, t) ==
    IF token.key # settings_SECRET_KEY THEN "Invalid token"
    ELSE IF token.exp <= t THEN "Expired token"
    ELSE "ok"

(* ------------------------------ state --------------------------------- *)
VARIABLES
    now,      \* the clock
    users,    \* table users: sequence of rows, users[i] has id i
    rts,      \* table refresh_tokens: set of rows
    jtiCtr,   \* how many jti values have been drawn
    sidCtr,   \* how many session ids have been drawn
    held,     \* the token pair each client keeps from routes/auth_routes.login: [uid, iat]
    req,      \* the refresh request each process has in flight
    resp,     \* the response of the operation that completed last at this clock value
    reg,      \* the register request each process has in flight
    active,   \* ConnectionManager.active, as the set of its (user_id, websocket) items
    chan,     \* every websocket: where its handler stands and whether its client is there
    http,     \* the POST /messages/send request in flight
    msgs,     \* the messages table
    inbox,    \* what the clients have received: [ch, id]
    dropped,  \* the ids of the payloads send_personal found no websocket for
    evt       \* when each user last logged in and last logged out: [uid, kind, at]

\* the state of the realtime side
chatVars == <<active, chan, http, msgs, inbox, dropped>>

vars == <<now, users, rts, jtiCtr, sidCtr, held, req, resp, reg, chatVars, evt>>

Idle == [pc |-> "idle", tok |-> NoToken]

\* websockets a client may open
Channels == {"c1", "c2"}

RegIdle == [pc |-> "idle", mobile |-> "", password |-> ""]
NoChan == [pc |-> "closed", peer |-> "up", uid |-> 0, to |-> 0, msg |-> 0]
NoHttp == [pc |-> "idle", uid |-> 0, to |-> 0, msg |-> 0]

NoResp == [op |-> "none", status |-> 0, detail |-> "", uid |-> 0, handle |-> "",
           tok |-> NoToken, access |-> NoToken, refresh |-> NoToken]

UserIds == 1..Len(users)

\* select(User).where(User.mobile == m)
by_mobile(m) == {i \in UserIds : users[i].mobile = m}

Init ==
    /\ now = 0
    /\ users = << >>
    /\ rts = {}
    /\ jtiCtr = 0
    /\ sidCtr = 0
    /\ held = {}
    /\ req = [p \in Procs |-> Idle]
    /\ resp = NoResp
    /\ reg = [p \in Procs |-> RegIdle]
    /\ active = {}
    /\ chan = [c \in Channels |-> NoChan]
    /\ http = NoHttp
    /\ msgs = {}
    /\ inbox = {}
    /\ dropped = {}
    /\ evt = {}

(* ------------------------------ clock --------------------------------- *)
\* a request in flight completes before the clock advances
Tick ==
    /\ now < MaxTime
    /\ \A p \in Procs : req[p].pc = "idle"
    /\ now' = now + 1
    /\ resp' = NoResp
    /\ UNCHANGED <<users, rts, jtiCtr, sidCtr, held, req, reg, chatVars, evt>>

(* ---------------------- routes/auth_routes.py ------------------------- *)
register(mobile, password) ==
    /\ IF by_mobile(mobile) # {}
       THEN /\ resp' = [NoResp EXCEPT !.op = "register", !.status = 409,
                            !.detail = "Mobile already registered",
                            !.handle = mobile]
            /\ UNCHANGED users
       ELSE /\ users' = Append(users,
                    [mobile |-> mobile,
                     password_hash |-> hash_password(password),
                     last_login_at |-> now,
                     last_activity_at |-> now,
                     last_logout_at |-> NULL])
            /\ resp' = [NoResp EXCEPT !.op = "register", !.status = 201,
                            !.uid = Len(users) + 1, !.handle = mobile]
    /\ UNCHANGED <<now, rts, jtiCtr, sidCtr, held, req>>

\* register, up to the await of the insert: the select has found no row
register_begin(p, mobile, password) ==
    /\ reg[p].pc = "idle"
    /\ IF by_mobile(mobile) # {}
       THEN /\ resp' = [NoResp EXCEPT !.op = "register", !.status = 409,
                            !.detail = "Mobile already registered",
                            !.handle = mobile]
            /\ reg' = reg
       ELSE /\ reg' = [reg EXCEPT ![p] = [pc |-> "inserting", mobile |-> mobile,
                                          password |-> password]]
            /\ resp' = resp
    /\ UNCHANGED <<now, users, rts, jtiCtr, sidCtr, held, req, chatVars>>

\* the insert into a users table whose mobile column is not unique
register_commit_not_unique(p) ==
    /\ reg[p].pc = "inserting"
    /\ reg' = [reg EXCEPT ![p] = RegIdle]
    /\ users' = Append(users,
                 [mobile |-> reg[p].mobile,
                  password_hash |-> hash_password(reg[p].password),
                  last_login_at |-> now,
                  last_activity_at |-> now,
                  last_logout_at |-> NULL])
    /\ resp' = [NoResp EXCEPT !.op = "register", !.status = 201,
                    !.uid = Len(users) + 1, !.handle = reg[p].mobile]
    /\ UNCHANGED <<now, rts, jtiCtr, sidCtr, held, req, chatVars>>

\* register, db.add(user); await db.commit(): User.mobile is unique, and the
\* IntegrityError of a second row with the handle is not caught (a 500)
register_commit(p) ==
    /\ reg[p].pc = "inserting"
    /\ reg' = [reg EXCEPT ![p] = RegIdle]
    /\ IF by_mobile(reg[p].mobile) # {}
       THEN /\ resp' = [NoResp EXCEPT !.op = "register", !.status = 500,
                            !.detail = "IntegrityError",
                            !.handle = reg[p].mobile]
            /\ users' = users
       ELSE /\ users' = Append(users,
                    [mobile |-> reg[p].mobile,
                     password_hash |-> hash_password(reg[p].password),
                     last_login_at |-> now,
                     last_activity_at |-> now,
                     last_logout_at |-> NULL])
            /\ resp' = [NoResp EXCEPT !.op = "register", !.status = 201,
                            !.uid = Len(users) + 1, !.handle = reg[p].mobile]
    /\ UNCHANGED <<now, rts, jtiCtr, sidCtr, held, req, chatVars>>

\* the branch login takes: which user row it found and whether it lets it in
login_found(mobile, password) ==
    {i \in by_mobile(mobile) : verify_password(password, users[i].password_hash)}

\* login as it would be if it told an unknown handle from a wrong password
login_response_enumerating(mobile, password) ==
    LET found == login_found(mobile, password) IN
    IF by_mobile(mobile) = {}
    THEN [status |-> 404, detail |-> "User not found",
          access |-> NoToken, refresh |-> NoToken]
    ELSE IF found = {}
    THEN [status |-> 401, detail |-> "Invalid credentials",
          access |-> NoToken, refresh |-> NoToken]
    ELSE LET uid == CHOOSE i \in found : TRUE IN
         [status |-> 200, detail |-> "",
          access |-> make_access_token(str(uid), now),
          refresh |-> make_refresh_token(str(uid), now)]

\* what login answers: HTTPException(401) or the TokenResponse
login_response(mobile, password) ==
    LET found == login_found(mobile, password) IN
    IF by_mobile(mobile) = {} \/ found = {}
    THEN [status |-> 401, detail |-> "Invalid credentials",
          access |-> NoToken, refresh |-> NoToken]
    ELSE LET uid == CHOOSE i \in found : TRUE IN
         [status |-> 200, detail |-> "",
          access |-> make_access_token(str(uid), now),
          refresh |-> make_refresh_token(str(uid), now)]

login(mobile, password) ==
    LET found == login_found(mobile, password)
        r == login_response(mobile, password)
    IN
    /\ resp' = [NoResp EXCEPT !.op = "login", !.status = r.status, !.detail = r.detail,
                    !.handle = mobile, !.access = r.access, !.refresh = r.refresh,
                    !.uid = IF found = {} THEN 0 ELSE CHOOSE i \in found : TRUE]
    /\ IF r.status # 200
       THEN UNCHANGED <<users, held>>
       ELSE LET uid == CHOOSE i \in found : TRUE IN
            /\ users' = [users EXCEPT ![uid].last_login_at = now]
            /\ held' = {h \in held : h.uid # uid} \cup {[uid |-> uid, iat |-> now]}
    /\ UNCHANGED <<now, rts, jtiCtr, sidCtr, req>>

(* --------------------- routes/message_routes.py ----------------------- *)
\* user_from_token without the check of the token's type
user_from_token_any_type(token) ==
    LET found == by_mobile(token.sub) IN
    IF decode_token(token, now) # "ok" \/ found = {}
    THEN /\ resp' = [NoResp EXCEPT !.op = "validate", !.status = 401,
                         !.detail = "Invalid or expired token",
                         !.tok = token]
         /\ UNCHANGED <<now, users, rts, jtiCtr, sidCtr, held, req>>
    ELSE LET uid == CHOOSE i \in found : TRUE IN
         /\ users' = [users EXCEPT ![uid].last_activity_at = now]
         /\ resp' = [NoResp EXCEPT !.op = "validate", !.status = 200,
                         !.uid = uid, !.tok = token]
         /\ UNCHANGED <<now, rts, jtiCtr, sidCtr, held, req>>

\* validateAccess
user_from_token(token) ==
    LET found == by_mobile(token.sub) IN
    IF decode_token(token, now) # "ok" \/ token.type # "access" \/ found = {}
    THEN /\ resp' = [NoResp EXCEPT !.op = "validate", !.status = 401,
                         !.detail = "Invalid or expired token",
                         !.tok = token]
         /\ UNCHANGED <<now, users, rts, jtiCtr, sidCtr, held, req>>
    ELSE LET uid == CHOOSE i \in found : TRUE IN
         \* db.add(user); db.commit() inside the try: the write goes through, or
         \* it raises and the except clause answers 401
         \/ /\ users' = [users EXCEPT ![uid].last_activity_at = now]
            /\ resp' = [NoResp EXCEPT !.op = "validate", !.status = 200,
                            !.uid = uid, !.tok = token]
            /\ UNCHANGED <<now, rts, jtiCtr, sidCtr, held, req>>
         \/ /\ resp' = [NoResp EXCEPT !.op = "validate", !.status = 401,
                            !.detail = "Invalid or expired token",
                            !.tok = token]
            /\ UNCHANGED <<now, users, rts, jtiCtr, sidCtr, held, req>>

(* ------------------------ tokens in circulation ----------------------- *)
\* the token pairs routes/auth_routes.login has returned
LoginAccessTokens == {make_access_token(str(h.uid), h.iat) : h \in held}
LoginRefreshTokens == {make_refresh_token(str(h.uid), h.iat) : h \in held}

\* the bearer token that was minted together with a refresh_tokens row
token_of(r) == create_refresh_token(users[r.user_id].mobile, r.jti, r.issued_at).token

\* the access token that was minted together with a refresh_tokens row
access_of(r) == create_access_token(users[r.user_id].mobile, r.issued_at)

SessionRefreshTokens == {token_of(r) : r \in rts}
SessionAccessTokens == {access_of(r) : r \in rts}

RefreshTokens == SessionRefreshTokens \cup LoginRefreshTokens
AccessTokens == SessionAccessTokens \cup LoginAccessTokens

(* ------------- Session Manager (spec 4.2; not in the source tree) ------ *)
\* select(RefreshToken).where(RefreshToken.jti == jti)
by_jti(jti) == {r \in rts : r.jti = jti}

InFlight == {p \in Procs : req[p].pc # "idle"}

\* Login: verify credentials, mint one active row with a fresh session id
session_login(mobile, password) ==
    LET found == by_mobile(mobile) IN
    IF found = {} \/ \A i \in found : ~verify_password(password, users[i].password_hash)
    THEN /\ resp' = [NoResp EXCEPT !.op = "session_login", !.status = 401,
                         !.detail = "InvalidCredentials",
                         !.handle = mobile]
         /\ UNCHANGED <<now, users, rts, jtiCtr, sidCtr, held, req>>
    ELSE LET uid == CHOOSE i \in found : TRUE
             rt == create_refresh_token(mobile, jtiCtr + 1, now)
         IN
         /\ jtiCtr + Cardinality(InFlight) < MaxJti
         /\ jtiCtr' = jtiCtr + 1
         /\ sidCtr' = sidCtr + 1
         /\ rts' = rts \cup {[jti |-> rt.jti, user_id |-> uid,
                              session_id |-> sidCtr + 1, parent_jti |-> NULL,
                              issued_at |-> now, last_used_at |-> now,
                              expires_at |-> rt.exp, revoked |-> FALSE]}
         /\ users' = [users EXCEPT ![uid].last_login_at = now,
                                   ![uid].last_activity_at = now,
                                   ![uid].last_logout_at = NULL]
         /\ resp' = [NoResp EXCEPT !.op = "session_login", !.status = 200,
                         !.uid = uid, !.handle = mobile,
                         !.access = create_access_token(mobile, now),
                         !.refresh = rt.token]
         /\ UNCHANGED <<now, held, req>>

RefreshFailed(token, kind) ==
    resp' = [NoResp EXCEPT !.op = "refresh", !.status = 401, !.detail = kind,
                 !.tok = token]

\* Rotate, the checks before the write: decode, look the row up, expiry
refresh_check(token) ==
    LET found == by_jti(token.jti) IN
    IF decode_token(token, now) # "ok" THEN "RefreshRejected"
    ELSE IF found = {} \/ \E r \in found : r.revoked THEN "RefreshRejected"
    ELSE IF \E r \in found : now >= r.expires_at THEN "RefreshExpired"
    ELSE "ok"

\* Rotate, up to the point where the transaction is about to write;
\* of two requests in flight the first is process 1
refresh_begin(p, token) ==
    /\ req[p].pc = "idle"
    /\ \A q \in Procs : q < p => req[q].pc # "idle"
    /\ IF refresh_check(token) # "ok"
       THEN /\ RefreshFailed(token, refresh_check(token))
            /\ UNCHANGED <<now, users, rts, jtiCtr, sidCtr, held, req>>
       ELSE /\ jtiCtr + Cardinality(InFlight) < MaxJti
            /\ req' = [req EXCEPT ![p] = [pc |-> "rotating", tok |-> token]]
            /\ UNCHANGED <<now, users, rts, jtiCtr, sidCtr, held, resp>>

\* the write without the compare-and-swap: it trusts what refresh_begin read
refresh_commit_no_cas(p) ==
    /\ req[p].pc = "rotating"
    /\ req' = [req EXCEPT ![p] = Idle]
    /\ LET token == req[p].tok
           t == now
           old == CHOOSE r \in by_jti(token.jti) : TRUE
           sub == users[old.user_id].mobile
           rt == create_refresh_token(sub, jtiCtr + 1, t)
       IN
       /\ jtiCtr' = jtiCtr + 1
       /\ rts' = (rts \ {old})
                 \cup {[old EXCEPT !.revoked = TRUE, !.last_used_at = t]}
                 \cup {[jti |-> rt.jti, user_id |-> old.user_id,
                        session_id |-> old.session_id, parent_jti |-> old.jti,
                        issued_at |-> t, last_used_at |-> t,
                        expires_at |-> rt.exp, revoked |-> FALSE]}
       /\ resp' = [NoResp EXCEPT !.op = "refresh", !.status = 200,
                       !.uid = old.user_id, !.tok = token,
                       !.access = create_access_token(sub, t),
                       !.refresh = rt.token]
       /\ UNCHANGED <<now, users, sidCtr, held>>

\* the write as two commits: the presented row is revoked, the child comes later
refresh_commit_revoke_first(p) ==
    /\ req[p].pc = "rotating"
    /\ LET token == req[p].tok
           t == now
           live == {r \in by_jti(token.jti) : ~r.revoked}
           mine == {r \in by_jti(token.jti) : r.revoked /\ r.last_used_at = NULL}
       IN
       IF live # {}
       THEN LET old == CHOOSE r \in live : TRUE IN
            /\ rts' = (rts \ {old}) \cup {[old EXCEPT !.revoked = TRUE, !.last_used_at = NULL]}
            /\ UNCHANGED <<req, resp, jtiCtr>>
       ELSE IF mine # {}
       THEN LET old == CHOOSE r \in mine : TRUE
                sub == users[old.user_id].mobile
                rt == create_refresh_token(sub, jtiCtr + 1, t)
            IN
            /\ req' = [req EXCEPT ![p] = Idle]
            /\ jtiCtr' = jtiCtr + 1
            /\ rts' = (rts \ {old})
                      \cup {[old EXCEPT !.last_used_at = t]}
                      \cup {[jti |-> rt.jti, user_id |-> old.user_id,
                             session_id |-> old.session_id, parent_jti |-> old.jti,
                             issued_at |-> t, last_used_at |-> t,
                             expires_at |-> rt.exp, revoked |-> FALSE]}
            /\ resp' = [NoResp EXCEPT !.op = "refresh", !.status = 200,
                            !.uid = old.user_id, !.tok = token,
                            !.access = create_access_token(sub, t),
                            !.refresh = rt.token]
       ELSE /\ req' = [req EXCEPT ![p] = Idle]
            /\ RefreshFailed(token, "ConcurrentRotationLost")
            /\ UNCHANGED <<rts, jtiCtr>>
    /\ UNCHANGED <<now, users, sidCtr, held>>

\* Rotate, the write: compare-and-swap on revoked, then one child row
refresh_commit(p) ==
    /\ req[p].pc = "rotating"
    /\ req' = [req EXCEPT ![p] = Idle]
    /\ LET token == req[p].tok
           t == now
           live == {r \in by_jti(token.jti) : ~r.revoked}
       IN
       IF live = {}
       THEN /\ RefreshFailed(token, "ConcurrentRotationLost")
            /\ UNCHANGED <<now, users, rts, jtiCtr, sidCtr, held>>
       ELSE LET old == CHOOSE r \in live : TRUE
                sub == users[old.user_id].mobile
                rt == create_refresh_token(sub, jtiCtr + 1, t)
            IN
            /\ jtiCtr' = jtiCtr + 1
            /\ rts' = (rts \ {old})
                      \cup {[old EXCEPT !.revoked = TRUE, !.last_used_at = t]}
                      \cup {[jti |-> rt.jti, user_id |-> old.user_id,
                             session_id |-> old.session_id, parent_jti |-> old.jti,
                             issued_at |-> t, last_used_at |-> t,
                             expires_at |-> rt.exp, revoked |-> FALSE]}
            /\ resp' = [NoResp EXCEPT !.op = "refresh", !.status = 200,
                            !.uid = old.user_id, !.tok = token,
                            !.access = create_access_token(sub, t),
                            !.refresh = rt.token]
            /\ UNCHANGED <<now, users, sidCtr, held>>

\* Rotate, cancelled before the commit: the transaction rolls back
refresh_cancel(p) ==
    /\ req[p].pc = "rotating"
    /\ req' = [req EXCEPT ![p] = Idle]
    /\ resp' = [NoResp EXCEPT !.op = "refresh", !.detail = "Cancelled",
                    !.tok = req[p].tok]
    /\ UNCHANGED <<now, users, rts, jtiCtr, sidCtr, held>>

\* a logout that reports a token it cannot resolve
logout_strict(token) ==
    LET found == by_jti(token.jti) IN
    /\ IF decode_token(token, now) # "ok" \/ token.type # "refresh" \/ found = {}
       THEN /\ resp' = [NoResp EXCEPT !.op = "logout", !.status = 401,
                            !.detail = "Invalid token", !.tok = token]
            /\ UNCHANGED <<users, rts>>
       ELSE LET rec == CHOOSE r \in found : TRUE IN
            /\ resp' = [NoResp EXCEPT !.op = "logout", !.status = 200,
                            !.detail = "Ack", !.tok = token]
            /\ rts' = {IF r.session_id = rec.session_id
                       THEN [r EXCEPT !.revoked = TRUE] ELSE r : r \in rts}
            /\ users' = [users EXCEPT ![rec.user_id].last_logout_at = now]
    /\ UNCHANGED <<now, jtiCtr, sidCtr, held, req>>

\* Logout: revoke every row of the presented token's session; always Ack
logout(token) ==
    LET found == by_jti(token.jti) IN
    /\ resp' = [NoResp EXCEPT !.op = "logout", !.status = 200, !.detail = "Ack",
                    !.tok = token]
    /\ IF decode_token(token, now) # "ok" \/ token.type # "refresh" \/ found = {}
       THEN UNCHANGED <<users, rts>>
       ELSE LET rec == CHOOSE r \in found : TRUE IN
            /\ rts' = {IF r.session_id = rec.session_id
                       THEN [r EXCEPT !.revoked = TRUE] ELSE r : r \in rts}
            /\ users' = [users EXCEPT ![rec.user_id].last_logout_at = now]
    /\ UNCHANGED <<now, jtiCtr, sidCtr, held, req>>

(* ---------------------- sockets/chat_manager.py ----------------------- *)
\* self.active.get(user_id)
active_get(user_id) == {e.ch : e \in {x \in active : x.uid = user_id}}

\* a websocket whose client has gone or whose handler has ended is closed:
\* send_json and accept on it raise
closed(ws) == chan[ws].peer = "gone" \/ chan[ws].pc \in {"refused", "done"}

\* a registry that keeps every websocket of a user
connect_keep_all(websocket, user_id) ==
    active' = active \cup {[uid |-> user_id, ch |-> websocket]}

\* connect, once accept() has returned: self.active[user_id] = websocket
connect(websocket, user_id) ==
    active' = {e \in active : e.uid # user_id} \cup {[uid |-> user_id, ch |-> websocket]}

\* self.active.pop(user_id, None)
disconnect(user_id) ==
    active' = {e \in active : e.uid # user_id}

\* send_personal raises when the websocket it finds is closed
send_raises(user_id) == \E ws \in active_get(user_id) : closed(ws)

\* a send_personal that takes the websocket out of the dict: self.active.pop
send_personal_popping(user_id, id) ==
    /\ inbox' = inbox \cup {[ch |-> ws, id |-> id] : ws \in {w \in active_get(user_id) : ~closed(w)}}
    /\ dropped' = IF active_get(user_id) = {} THEN dropped \cup {id} ELSE dropped
    /\ active' = {e \in active : e.uid # user_id}

\* send_personal: ws = self.active.get(user_id); if ws: await ws.send_json(data)
send_personal(user_id, id) ==
    /\ inbox' = inbox \cup {[ch |-> ws, id |-> id] : ws \in {w \in active_get(user_id) : ~closed(w)}}
    /\ dropped' = IF active_get(user_id) = {} THEN dropped \cup {id} ELSE dropped
    /\ active' = active

(* --------------------- routes/message_routes.py ----------------------- *)
\* how many rows the messages table may ever hold
MaxMsg == 2

\* ids a client may name as receiver_id (0: the field is missing)
Receivers == {0, 1, 2}

\* the exception a send_json on a closed websocket surfaces as
Raised == {"WebSocketDisconnect", "RuntimeError"}

\* the autoincrement id of the next messages row
next_id == Cardinality(msgs) + 1

\* the handler of websocket c has ended on an exception: only
\* WebSocketDisconnect is caught, and its handler calls manager.disconnect
ws_raise(c, exc) ==
    /\ chan' = [chan EXCEPT ![c].pc = "done"]
    /\ IF exc = "WebSocketDisconnect"
       THEN disconnect(chan[c].uid)
       ELSE active' = active

\* websocket_chat that closes a refused websocket and goes on to register it
ws_open_no_return(c, token) ==
    /\ chan[c].pc = "closed"
    /\ user_from_token(token)
    /\ chan' = [chan EXCEPT ![c].pc = "accepting",
                            ![c].uid = IF resp'.status = 200 THEN resp'.uid
                                       ELSE IF UserIds # {} THEN 1 ELSE 0]
    /\ UNCHANGED <<reg, active, http, msgs, inbox, dropped>>

\* websocket_chat, lines 78-83: user_from_token, close(4001) on HTTPException
ws_open(c, token) ==
    /\ chan[c].pc = "closed"
    /\ user_from_token(token)
    /\ chan' = IF resp'.status = 200
               THEN [chan EXCEPT ![c].pc = "accepting", ![c].uid = resp'.uid]
               ELSE [chan EXCEPT ![c].pc = "refused"]
    /\ UNCHANGED <<reg, active, http, msgs, inbox, dropped>>

\* websocket_chat, line 84: manager.connect once websocket.accept() returns
ws_connect(c) ==
    /\ chan[c].pc = "accepting"
    /\ IF closed(c)
       THEN /\ chan' = [chan EXCEPT ![c].pc = "done"]
            /\ active' = active
       ELSE /\ chan' = [chan EXCEPT ![c].pc = "open"]
            /\ connect(c, chan[c].uid)
    /\ UNCHANGED <<now, users, rts, jtiCtr, sidCtr, held, req, resp, reg,
                   http, msgs, inbox, dropped>>

\* receive_json raises WebSocketDisconnect once the client has gone
ws_disconnected(c) ==
    /\ chan[c].pc = "open"
    /\ closed(c)
    /\ ws_raise(c, "WebSocketDisconnect")
    /\ UNCHANGED <<now, users, rts, jtiCtr, sidCtr, held, req, resp, reg, http, msgs, inbox, dropped>>

\* the row a handler adds: Message(sender_id, receiver_id, ...)
Message(sender_id, receiver_id) ==
    [id |-> next_id, sender_id |-> sender_id, receiver_id |-> receiver_id]

\* the loop body with send_personal moved in front of the commit
ws_receive_send_first(c, receiver_id, content) ==
    /\ chan[c].pc = "open"
    /\ ~closed(c)
    /\ IF receiver_id = 0 \/ ~content
       THEN /\ resp' = [NoResp EXCEPT !.op = "ws", !.status = 400,
                            !.detail = "receiver_id and (content or drive_file_id) required",
                            !.uid = chan[c].uid]
            /\ UNCHANGED <<chan, msgs, active, inbox, dropped>>
       ELSE /\ next_id <= MaxMsg
            /\ resp' = resp
            /\ ~send_raises(receiver_id)
            /\ send_personal(receiver_id, next_id)
            /\ \/ /\ msgs' = msgs \cup {Message(chan[c].uid, receiver_id)}
                  /\ chan' = [chan EXCEPT ![c].pc = "ack", ![c].to = receiver_id,
                                          ![c].msg = next_id]
               \/ /\ msgs' = msgs
                  /\ chan' = [chan EXCEPT ![c].pc = "done"]
    /\ UNCHANGED <<now, users, rts, jtiCtr, sidCtr, held, req, reg, http>>

\* websocket_chat, lines 88-107: one frame received, checked and recorded;
\* db.commit() goes through or raises, and nothing catches what it raises
ws_receive(c, receiver_id, content) ==
    /\ chan[c].pc = "open"
    /\ ~closed(c)
    /\ IF receiver_id = 0 \/ ~content
       THEN /\ resp' = [NoResp EXCEPT !.op = "ws", !.status = 400,
                            !.detail = "receiver_id and (content or drive_file_id) required",
                            !.uid = chan[c].uid]
            /\ UNCHANGED <<chan, msgs>>
       ELSE /\ next_id <= MaxMsg
            /\ resp' = resp
            /\ \/ /\ msgs' = msgs \cup {Message(chan[c].uid, receiver_id)}
                  /\ chan' = [chan EXCEPT ![c].pc = "recorded", ![c].to = receiver_id,
                                          ![c].msg = next_id]
               \/ /\ msgs' = msgs
                  /\ chan' = [chan EXCEPT ![c].pc = "done"]
    /\ UNCHANGED <<now, users, rts, jtiCtr, sidCtr, held, req, reg, active, http, inbox, dropped>>

\* websocket_chat, lines 109-114: manager.send_personal(receiver_id, ...)
ws_deliver(c) ==
    /\ chan[c].pc = "recorded"
    /\ IF send_raises(chan[c].to)
       THEN /\ \E exc \in Raised : ws_raise(c, exc)
            /\ UNCHANGED <<inbox, dropped>>
       ELSE /\ send_personal(chan[c].to, chan[c].msg)
            /\ chan' = [chan EXCEPT ![c].pc = "ack"]
    /\ UNCHANGED <<now, users, rts, jtiCtr, sidCtr, held, req, resp, reg, http, msgs>>

\* websocket_chat, line 115: the acknowledgement to the sender
ws_ack(c) ==
    /\ chan[c].pc = "ack"
    /\ IF closed(c)
       THEN \E exc \in Raised : ws_raise(c, exc)
       ELSE /\ chan' = [chan EXCEPT ![c].pc = "open", ![c].to = 0, ![c].msg = 0]
            /\ active' = active
    /\ UNCHANGED <<now, users, rts, jtiCtr, sidCtr, held, req, resp, reg, http, msgs, inbox, dropped>>

\* the client of a websocket goes away
client_close(c) ==
    /\ chan[c].pc \in {"accepting", "open", "recorded", "ack"}
    /\ chan[c].peer = "up"
    /\ chan' = [chan EXCEPT ![c].peer = "gone"]
    /\ UNCHANGED <<now, users, rts, jtiCtr, sidCtr, held, req, resp, reg, active, http, msgs, inbox, dropped>>

\* send_message, lines 57-66: user_from_token, the 400, then the commit
send_message(token, receiver_id, content) ==
    /\ http.pc = "idle"
    /\ user_from_token(token)
    /\ IF resp'.status # 200 \/ ~content
       THEN UNCHANGED <<http, msgs>>
       ELSE /\ next_id <= MaxMsg
            /\ \/ /\ msgs' = msgs \cup {Message(resp'.uid, receiver_id)}
                  /\ http' = [pc |-> "recorded", uid |-> resp'.uid,
                              to |-> receiver_id, msg |-> next_id]
               \/ UNCHANGED <<http, msgs>>
    /\ UNCHANGED <<reg, active, chan, inbox, dropped>>

\* send_message, lines 68-74: manager.send_personal, then the response
send_message_deliver ==
    /\ http.pc = "recorded"
    /\ http' = NoHttp
    /\ IF send_raises(http.to)
       THEN UNCHANGED <<active, inbox, dropped>>
       ELSE send_personal(http.to, http.msg)
    /\ UNCHANGED <<now, users, rts, jtiCtr, sidCtr, held, req, resp, reg, chan, msgs>>

(* ------------------------------ main.py ------------------------------- *)
\* a users row that has been deleted (ids are not reused)
Deleted == [mobile |-> "", password_hash |-> <<"deleted">>,
            last_login_at |-> NULL, last_activity_at |-> NULL,
            last_logout_at |-> NULL]

\* the janitor's query without the comparison of login and logout
to_delete_ignoring_login ==
    {i \in UserIds :
        /\ users[i].last_logout_at # NULL
        /\ users[i].last_logout_at < now - ACCOUNT_DELETE_AFTER_LOGOUT_DAYS}

\* the janitor's query: cutoff = now - ACCOUNT_DELETE_AFTER_LOGOUT_DAYS
to_delete ==
    {i \in UserIds :
        /\ users[i].last_logout_at # NULL
        /\ \/ users[i].last_login_at = NULL
           \/ users[i].last_login_at <= users[i].last_logout_at
        /\ users[i].last_logout_at < now - ACCOUNT_DELETE_AFTER_LOGOUT_DAYS}

\* one pass of _delete_accounts_logged_out_over_cutoff_loop: query, delete,
\* commit, with no await in between; the rows of refresh_tokens and messages
\* that reference a deleted user go with it (ondelete CASCADE)
janitor_pass ==
    /\ users' = [i \in UserIds |-> IF i \in to_delete THEN Deleted ELSE users[i]]
    /\ rts' = {r \in rts : r.user_id \notin to_delete}
    /\ msgs' = {m \in msgs : m.sender_id \notin to_delete /\ m.receiver_id \notin to_delete}
    /\ resp' = [NoResp EXCEPT !.op = "janitor", !.status = Cardinality(to_delete)]
    /\ UNCHANGED <<now, jtiCtr, sidCtr, held, req, reg, active, chan, http,
                   inbox, dropped, evt>>

(* ------------------------------ system -------------------------------- *)
\* the handlers above leave the register requests in flight and the realtime side alone
Frame == UNCHANGED <<reg, chatVars>>
Rest == Frame /\ UNCHANGED evt

Register == Rest /\ \E m \in RegHandles, p \in RegPasswords : register(m, p)
Login == Rest /\ \E m \in Handles, p \in Passwords : login(m, p)
SessionLogin == Rest /\ \E m \in Handles, p \in Passwords : session_login(m, p)
Validate == Rest /\ \E tok \in AccessTokens \cup RefreshTokens \cup {ForgedToken} : user_from_token(tok)
RefreshBegin == Rest /\ \E p \in Procs, tok \in RefreshTokens \cup {ForgedToken} : refresh_begin(p, tok)
RefreshCommit == Rest /\ \E p \in Procs : refresh_commit(p)
Logout == Rest /\ \E tok \in RefreshTokens \cup {ForgedToken} : logout(tok)

\* the whole system
Next ==
    \/ Tick
    \/ Register
    \/ Login
    \/ SessionLogin
    \/ Validate
    \/ RefreshBegin
    \/ RefreshCommit
    \/ Logout

Spec == Init /\ [][Next]_vars

\* routes/auth_routes.py with the access-token check of routes/message_routes.py
NextLogin ==
    \/ Tick
    \/ Register
    \/ Login
    \/ Validate

SpecLogin == Init /\ [][NextLogin]_vars

\* the Session Manager
NextSession ==
    \/ Tick
    \/ Register
    \/ SessionLogin
    \/ RefreshBegin
    \/ RefreshCommit
    \/ Logout

SpecSession == Init /\ [][NextSession]_vars

RefreshCancel == Rest /\ \E p \in Procs : refresh_cancel(p)

\* the Session Manager with rotations that may be cancelled before they commit
NextRotation ==
    \/ Tick
    \/ Register
    \/ SessionLogin
    \/ RefreshBegin
    \/ RefreshCommit
    \/ RefreshCancel
    \/ Logout

SpecRotation == Init /\ [][NextRotation]_vars

WsOpen == UNCHANGED evt /\ \E c \in {x \in Channels : x = "c1" \/ chan["c1"].pc # "closed"}, tok \in AccessTokens \cup RefreshTokens \cup {ForgedToken} : ws_open(c, tok)
WsConnect == UNCHANGED evt /\ \E c \in Channels : ws_connect(c)
WsReceive == UNCHANGED evt /\ \E c \in Channels, r \in Receivers, content \in BOOLEAN : ws_receive(c, r, content)
WsDeliver == UNCHANGED evt /\ \E c \in Channels : ws_deliver(c)
WsAck == UNCHANGED evt /\ \E c \in Channels : ws_ack(c)
WsDisconnected == UNCHANGED evt /\ \E c \in Channels : ws_disconnected(c)
ClientClose == UNCHANGED evt /\ \E c \in Channels : client_close(c)
SendMessage == UNCHANGED evt /\ \E tok \in AccessTokens \cup RefreshTokens \cup {ForgedToken}, r \in Receivers, content \in BOOLEAN :
                   send_message(tok, r, content)
SendMessageDeliver == UNCHANGED evt /\ send_message_deliver
\* the realtime side needs one token pair
FirstSessionLogin == rts = {} /\ SessionLogin

\* the realtime side: websocket_chat, send_message and the connection registry
NextChat ==
    \/ Register
    \/ FirstSessionLogin
    \/ WsOpen
    \/ WsConnect
    \/ WsReceive
    \/ WsDeliver
    \/ WsAck
    \/ WsDisconnected
    \/ ClientClose
    \/ SendMessage
    \/ SendMessageDeliver

SpecChat == Init /\ [][NextChat]_vars

\* the access-token check over the tokens of the Session Manager
NextAccess ==
    \/ Tick
    \/ Register
    \/ SessionLogin
    \/ Validate

SpecAccess == Init /\ [][NextAccess]_vars

\* when user uid last did kind ("login", "logout"), NULL if never
last(uid, kind) ==
    IF \E e \in evt : e.uid = uid /\ e.kind = kind
    THEN (CHOOSE e \in evt : e.uid = uid /\ e.kind = kind).at
    ELSE NULL

\* evt once user uid has done kind at this clock value
Stamped(uid, kind) ==
    {e \in evt : ~(e.uid = uid /\ e.kind = kind)}
        \cup {[uid |-> uid, kind |-> kind, at |-> now]}

\* the logout resolves the token to a refresh_tokens row
Resolves(token) ==
    decode_token(token, now) = "ok" /\ token.type = "refresh" /\ by_jti(token.jti) # {}

JanitorLogin ==
    /\ Frame
    /\ \E m \in Handles, p \in Passwords : login(m, p)
    /\ evt' = IF resp'.status = 200 THEN Stamped(resp'.uid, "login") ELSE evt
JanitorSessionLogin ==
    /\ Frame
    /\ \E m \in Handles, p \in Passwords : session_login(m, p)
    /\ evt' = IF resp'.status = 200 THEN Stamped(resp'.uid, "login") ELSE evt
JanitorLogout ==
    /\ UNCHANGED <<reg, active, chan, http, msgs, inbox, dropped>>
    /\ \E tok \in RefreshTokens \cup {ForgedToken} :
          /\ logout(tok)
          /\ evt' = IF Resolves(tok)
                    THEN Stamped((CHOOSE r \in by_jti(tok.jti) : TRUE).user_id, "logout")
                    ELSE evt
JanitorPass == janitor_pass

\* logins, logouts and the daily pass of the account janitor
NextJanitor ==
    \/ Tick
    \/ Register
    \/ JanitorLogin
    \/ JanitorSessionLogin
    \/ JanitorLogout
    \/ JanitorPass

SpecJanitor == Init /\ [][NextJanitor]_vars

RegisterBegin == UNCHANGED evt /\ \E p \in Procs, m \in Handles, pw \in RegPasswords : register_begin(p, m, pw)
RegisterCommit == UNCHANGED evt /\ \E p \in Procs : register_commit(p)

\* register requests running side by side
NextRegister ==
    \/ Tick
    \/ RegisterBegin
    \/ RegisterCommit

SpecRegister == Init /\ [][NextRegister]_vars

(* ============================== claims ================================ *)

(* C1: after a successful login, validateAccess of the access token login
   returned resolves to the identity that logged in at every time before the
   token's expiry and answers Unauthorized at and after the expiry. *)
C1_AccessTokenValidUntilExpiry ==
    \A h \in held :
        (resp.op = "validate" /\ resp.tok = make_access_token(str(h.uid), h.iat))
        => IF now < h.iat + ACCESS_TOKEN_EXPIRE_MINUTES
           THEN resp.status = 200 /\ resp.uid = h.uid
           ELSE resp.status = 401

(* C5: login with an unknown handle and login with a known handle and a wrong
   password are answered alike: same status, same detail, same body. *)
C5_LoginFailureIndistinguishable ==
    \A unknown \in Handles, known \in Handles, p1 \in Passwords, p2 \in Passwords :
        (/\ by_mobile(unknown) = {}
         /\ by_mobile(known) # {}
         /\ login_found(known, p2) = {})
        => login_response(unknown, p1) = login_response(known, p2)

\* a login with a wrong password for a registered handle has just been refused
C5_Witness ==
    /\ resp.op = "login"
    /\ resp.status = 401
    /\ by_mobile(resp.handle) # {}
    /\ \E unknown \in Handles : by_mobile(unknown) = {}

(* C8: every successful login persists exactly one new refresh-token row,
   active, with a session id no other row has, parent_jti NULL and
   expires_at = now + inactivity window, and the refresh token it returns
   carries that row's jti. *)
C8_LoginPersistsOneActiveRow ==
    [][\A m \in Handles, p \in Passwords :
        (login(m, p) /\ resp'.status = 200)
        => \E r \in rts' :
              /\ rts' = rts \cup {r}
              /\ r \notin rts
              /\ ~r.revoked
              /\ r.parent_jti = NULL
              /\ r.expires_at = now + REFRESH_INACTIVITY_DAYS
              /\ \A x \in rts : x.session_id # r.session_id
              /\ resp'.refresh.jti = r.jti]_vars

(* C9: a successful login sets last_login_at and last_activity_at to the
   login time and clears last_logout_at; a failed login changes no timestamp. *)
C9_LoginStampsIdentity ==
    [][\A m \in Handles, p \in Passwords :
        login(m, p)
        => IF resp'.status = 200
           THEN /\ users'[resp'.uid].last_login_at = now
                /\ users'[resp'.uid].last_activity_at = now
                /\ users'[resp'.uid].last_logout_at = NULL
           ELSE users' = users]_vars

\* the rows of the session a token belongs to
session_of(token) == {r \in rts : \E x \in by_jti(token.jti) : x.session_id = r.session_id}

\* the step completes a refresh call of process p with the token
RefreshDone(p, token) ==
    \/ refresh_begin(p, token) /\ req'[p].pc = "idle"
    \/ req[p].tok = token /\ refresh_commit(p)

\* the token was rotated: its row has a child
Rotated(token) == \E r \in rts : token.jti # NoJti /\ r.parent_jti = token.jti

Rejections == {"RefreshRejected", "ConcurrentRotationLost"}

(* C2: a refresh token issued by login or by a rotation is single-use: of
   the refresh calls with it, sequential or interleaved, the first to complete
   while the token is unexpired and not revoked succeeds, every call after a
   success is refused with RefreshRejected or ConcurrentRotationLost, and no
   token is ever rotated twice. *)
C2_RefreshSingleUse ==
    [][\A p \in Procs, token \in RefreshTokens :
        RefreshDone(p, token)
        => /\ (/\ token.exp > now
               /\ ~Rotated(token)
               /\ \A r \in by_jti(token.jti) : ~r.revoked)
              => resp'.status = 200
           /\ Rotated(token) => (resp'.status = 401 /\ resp'.detail \in Rejections)
           /\ \A r1 \in rts', r2 \in rts' :
                 (r1.parent_jti = r2.parent_jti /\ r1.parent_jti # NULL) => r1 = r2]_vars

(* C3: after login and two successful refreshes, a logout presented with any
   refresh token of that session leaves every refresh token of the session
   refused with RefreshRejected, and revokes no row of another session. *)
C3_LogoutRevokesChain ==
    [][\A token \in SessionRefreshTokens :
        (logout(token) /\ Cardinality(session_of(token)) >= 3)
        => /\ \A r \in session_of(token) :
                 \E r2 \in rts' : /\ r2.jti = r.jti
                                  /\ (refresh_check(token_of(r2)))' = "RefreshRejected"
           /\ \A r \in rts \ session_of(token) : r \in rts']_vars

(* C4: in every reachable state each session has at most one row that is
   not revoked. *)
C4_OneActivePerSession ==
    \A r1 \in rts, r2 \in rts :
        (r1.session_id = r2.session_id /\ ~r1.revoked /\ ~r2.revoked) => r1 = r2

\* a session that was rotated and has a revoked row and an active row
C4_Witness ==
    \E r1 \in rts, r2 \in rts :
        /\ r1.session_id = r2.session_id
        /\ r1.revoked /\ ~r2.revoked
        /\ r2.parent_jti = r1.jti

(* C6: logout answers success whatever token is presented: a live one, one
   already revoked, an expired one, an undecodable one. *)
C6_LogoutNeverFails ==
    resp.op = "logout" => (resp.status = 200 /\ resp.detail = "Ack")

\* logout has just answered for a refresh token of a session that had expired
C6_Witness ==
    /\ resp.op = "logout"
    /\ resp.status = 200
    /\ resp.tok \in SessionRefreshTokens
    /\ decode_token(resp.tok, now) = "Expired token"

(* C7: a rotation at time t creates a row whose expires_at is t plus the
   inactivity window, whenever the session started. *)
C7_RotationResetsWindow ==
    (resp.op = "refresh" /\ resp.status = 200)
    => \E r \in rts :
          /\ r.jti = resp.refresh.jti
          /\ r.parent_jti = resp.tok.jti
          /\ ~r.revoked
          /\ r.expires_at = now + REFRESH_INACTIVITY_DAYS

\* a rotation later than the session's login: the new row outlives the first
C7_Witness ==
    /\ resp.op = "refresh"
    /\ resp.status = 200
    /\ \E r \in rts, root \in rts :
          /\ r.jti = resp.refresh.jti
          /\ root.session_id = r.session_id
          /\ root.parent_jti = NULL
          /\ root.issued_at < now
          /\ r.expires_at > root.expires_at

(* C10: a refresh presented with a token whose row is not revoked is refused
   with RefreshExpired whenever now >= expires_at, the boundary included, and
   succeeds only when now < expires_at. *)
C10_ExpiredRowRefusedAsExpired ==
    resp.op = "refresh"
    => /\ \A r \in by_jti(resp.tok.jti) :
             (~r.revoked /\ now >= r.expires_at)
             => (resp.status = 401 /\ resp.detail = "RefreshExpired")
       /\ resp.status = 200
          => \A r \in by_jti(resp.tok.jti) : now < r.expires_at

\* the step is a send_personal(user_id, id) that returned without raising
SendReturned(user_id, id) ==
    \/ \E c \in Channels : /\ ws_deliver(c) /\ chan'[c].pc = "ack"
                           /\ chan[c].to = user_id /\ chan[c].msg = id
    \/ /\ send_message_deliver /\ ~send_raises(http.to)
       /\ http.to = user_id /\ http.msg = id

(* C11: the registry is last-connect-wins: after every step each identity
   maps to at most one websocket; a connect leaves the identity mapped to the
   websocket just connected and to no other; a send to an identity delivers
   the payload once, to the websocket the identity is mapped to, and to no
   websocket connected earlier. *)
C11_LastConnectWins ==
    [][/\ \A e1 \in active', e2 \in active' : e1.uid = e2.uid => e1 = e2
       /\ \A c \in Channels :
             (ws_connect(c) /\ chan'[c].pc = "open")
             => {e \in active' : e.uid = chan[c].uid}
                    = {[uid |-> chan[c].uid, ch |-> c]}
       /\ \A u \in Receivers, id \in 1..(MaxMsg + 1) :
             SendReturned(u, id)
             => /\ inbox' \ inbox \subseteq {[ch |-> e.ch, id |-> id] : e \in {x \in active : x.uid = u}}
                /\ Cardinality({x \in inbox' : x.id = id}) <= 1
                /\ active_get(u) # {} => \E x \in inbox' : x.id = id]_vars

\* both websockets of one identity were connected, c2 last, and a payload
\* has reached c2 and none c1
C11_Witness ==
    /\ chan["c1"].pc = "open"
    /\ chan["c2"].pc \in {"open", "recorded", "ack"}
    /\ chan["c1"].uid = chan["c2"].uid
    /\ active = {[uid |-> chan["c2"].uid, ch |-> "c2"]}
    /\ \E x \in inbox : x.ch = "c2"
    /\ \A x \in inbox : x.ch # "c1"

(* C12: a send to an identity with no websocket delivers nothing, raises
   nothing and leaves the registry as it was; no send adds or removes a
   mapping; and nothing is kept for later: a connect delivers nothing. *)
C12_SendToAbsentIsNoOp ==
    [][/\ \A c \in Channels :
             ws_deliver(c)
             => /\ active_get(chan[c].to) = {}
                   => (inbox' = inbox /\ chan'[c].pc = "ack" /\ active' = active)
                /\ chan'[c].pc = "ack" => active' = active
       /\ send_message_deliver
          => /\ active_get(http.to) = {} => (inbox' = inbox /\ ~send_raises(http.to))
             /\ active' = active
       /\ \A c \in Channels : ws_connect(c) => inbox' = inbox]_vars

\* a recorded message found no websocket, was dropped, and the sender went on
C12_Witness ==
    \E c \in Channels :
        /\ chan[c].pc = "ack"
        /\ chan[c].msg \in dropped
        /\ \A x \in inbox : x.id # chan[c].msg

(* C13: a websocket goes on to be registered only when user_from_token
   succeeded for the token it presented, and under the identity
   user_from_token returned; a websocket whose token is refused is closed and
   never registered; every message recorded comes from an admitted websocket
   or from a send_message call whose token was accepted. *)
C13_AdmissionRequiresValidToken ==
    [][/\ \A c \in Channels, tok \in AccessTokens \cup RefreshTokens \cup {ForgedToken} :
             ws_open(c, tok)
             => /\ active' = active
                /\ resp'.op = "validate" /\ resp'.tok = tok
                /\ IF resp'.status = 200
                   THEN chan'[c].pc = "accepting" /\ chan'[c].uid = resp'.uid
                   ELSE chan'[c].pc = "refused"
       /\ \A e \in active' :
             /\ chan'[e.ch].pc \notin {"closed", "refused", "accepting"}
             /\ chan'[e.ch].uid = e.uid
             /\ e.uid \in UserIds
       /\ \A c \in Channels : chan[c].pc = "refused" => chan'[c].pc = "refused"
       /\ \A m \in msgs' \ msgs :
             \/ \E c \in Channels : /\ chan[c].pc = "open"
                                    /\ chan[c].uid = m.sender_id
                                    /\ chan'[c].pc = "recorded"
             \/ /\ resp'.op = "validate" /\ resp'.status = 200
                /\ resp'.uid = m.sender_id]_vars

\* one websocket was refused and is not registered, the other is registered
C13_Witness ==
    /\ chan["c1"].pc = "refused"
    /\ \A e \in active : e.ch # "c1"
    /\ \E e \in active : e.ch = "c2"

(* C14: user_from_token answers 401 for every token that does not decode
   (wrong key, expired) and for every token that decodes and is not of type
   access, a valid refresh token included; and when it answers 401 no user
   row has changed. *)
C14_BadTokenUnauthorized ==
    [][\A tok \in AccessTokens \cup RefreshTokens \cup {ForgedToken} :
          user_from_token(tok)
          => /\ (decode_token(tok, now) # "ok" \/ tok.type # "access")
                => (resp'.status = 401 /\ resp'.detail = "Invalid or expired token")
             /\ resp'.status = 401 => users' = users]_vars

\* a refresh token that decodes, of a registered user, has just been refused
C14_Witness ==
    /\ resp.op = "validate"
    /\ resp.status = 401
    /\ resp.tok \in SessionRefreshTokens
    /\ decode_token(resp.tok, now) = "ok"
    /\ by_mobile(resp.tok.sub) # {}

(* C18: the write of last_activity_at is best-effort: user_from_token with
   an access token that decodes, of a user that exists, answers with the
   user whether or not the write goes through. *)
C18_ActivityBumpBestEffort ==
    [][\A tok \in AccessTokens :
          (/\ user_from_token(tok)
           /\ decode_token(tok, now) = "ok"
           /\ tok.type = "access"
           /\ by_mobile(tok.sub) # {})
          => resp'.status = 200]_vars

(* C15: no two user rows ever hold the same handle, also when register
   requests for one handle run side by side: the insert that comes second
   fails and adds no row. *)
C15_HandleUnique ==
    [][/\ \A i \in 1..Len(users'), j \in 1..Len(users') :
             users'[i].mobile = users'[j].mobile => i = j
       /\ \A p \in Procs :
             (register_commit(p) /\ by_mobile(reg[p].mobile) # {})
             => (users' = users /\ resp'.status >= 400)]_vars

\* two requests for one handle were in flight together and the second failed
C15_Witness ==
    /\ resp.op = "register"
    /\ resp.status = 500
    /\ Cardinality(by_mobile(resp.handle)) = 1

(* C16: a rotation is one write: no step leaves the presented row revoked
   without its child or the child beside a parent that is still active; a
   row that has a child is revoked; the checks before the write change
   nothing; and a rotation that loses or is cancelled leaves the rows, the
   users and the jti counter as they were. *)
C16_RotationAtomic ==
    [][/\ \A r \in rts', ch \in rts' : ch.parent_jti = r.jti => r.revoked
       /\ \A r \in rts :
             (~r.revoked /\ \E r2 \in rts' : r2.jti = r.jti /\ r2.revoked)
             => \/ \E ch \in rts' \ rts : ch.parent_jti = r.jti /\ ~ch.revoked
                \/ resp'.op = "logout"
       /\ \A p \in Procs :
             /\ refresh_commit(p)
                => \/ /\ resp'.status = 200
                      /\ Cardinality(rts' \ rts) = 2
                      /\ Cardinality(rts') = Cardinality(rts) + 1
                   \/ /\ resp'.status = 401
                      /\ UNCHANGED <<rts, users, jtiCtr>>
             /\ refresh_cancel(p) => UNCHANGED <<rts, users, jtiCtr>>
             /\ \A tok \in RefreshTokens \cup {ForgedToken} :
                   refresh_begin(p, tok) => UNCHANGED <<rts, users, jtiCtr>>]_vars

\* a rotation was cancelled before its commit and the presented row is still
\* active and has no child
C16_Witness ==
    /\ resp.op = "refresh"
    /\ resp.detail = "Cancelled"
    /\ \E r \in by_jti(resp.tok.jti) :
          /\ ~r.revoked
          /\ \A ch \in rts : ch.parent_jti # r.jti
    /\ \E r \in rts : r.revoked

\* the ids of the rows of the messages table
recorded == {m.id : m \in msgs}

(* C17: every payload that send_personal has delivered or dropped, and every
   payload a handler is about to hand to send_personal, in the websocket loop
   and in send_message alike, is the payload of a row of the messages table:
   the commit comes first. *)
C17_RecordedBeforeSent ==
    /\ \A x \in inbox : x.id \in recorded
    /\ \A id \in dropped : id \in recorded
    /\ \A c \in Channels : chan[c].pc \in {"recorded", "ack"} => chan[c].msg \in recorded
    /\ http.pc = "recorded" => http.msg \in recorded

\* one recorded message was delivered and another found no websocket
C17_Witness ==
    /\ inbox # {}
    /\ dropped # {}
    /\ Cardinality(msgs) = 2
    /\ \A id \in dropped : \E m \in msgs : m.id = id /\ m.receiver_id \in Receivers

(* C19: once the websocket c1 of an identity has been replaced by c2, the
   disconnect the handler of c1 does when it sees its client gone leaves the
   identity mapped to c2: a handler removes only the websocket it registered. *)
C19_DisconnectOnlyOwnChannel ==
    [][\A c \in Channels :
          ws_disconnected(c)
          => \A e \in active : e.ch # c => e \in active']_vars

(* C20: once the handler of a websocket has ended, whatever ended it, the
   registry maps no identity to that websocket. *)
C20_EndedChannelUnregistered ==
    \A c \in Channels :
        chan[c].pc = "done" => \A e \in active : e.ch # c

(* C21: a pass of the janitor deletes a user only when its last_logout_at
   is set and earlier than the cutoff and its last_login_at is NULL or not
   later than last_logout_at; a user that never logged out, or whose last
   login was at a later clock value than its last logout, is not deleted,
   whatever logins, logouts and passes came before. *)
C21_JanitorDeletesOnlyLoggedOut ==
    [][janitor_pass
       => \A i \in UserIds :
             (users[i] # Deleted /\ users'[i] = Deleted)
             => /\ users[i].last_logout_at # NULL
                /\ users[i].last_logout_at < now - ACCOUNT_DELETE_AFTER_LOGOUT_DAYS
                /\ \/ users[i].last_login_at = NULL
                   \/ users[i].last_login_at <= users[i].last_logout_at
                /\ last(i, "logout") # NULL
                /\ last(i, "logout") < now - ACCOUNT_DELETE_AFTER_LOGOUT_DAYS
                /\ ~(last(i, "login") > last(i, "logout"))]_vars

\* a pass has just deleted a user that logged out before the cutoff
C21_Witness ==
    /\ resp.op = "janitor"
    /\ resp.status = 1
    /\ \E i \in UserIds : users[i] = Deleted /\ last(i, "logout") # NULL

(* ======================== further properties ========================== *)

(* The tokens minted together with a refresh-token row are single-use. *)
SessionTokensSingleUse ==
    [][\A p \in Procs, token \in SessionRefreshTokens :
        RefreshDone(p, token)
        => /\ (/\ token.exp > now
               /\ ~Rotated(token)
               /\ \A r \in by_jti(token.jti) : ~r.revoked)
              => resp'.status = 200
           /\ Rotated(token) => (resp'.status = 401 /\ resp'.detail \in Rejections)
           /\ \A r1 \in rts', r2 \in rts' :
                 (r1.parent_jti = r2.parent_jti /\ r1.parent_jti # NULL) => r1 = r2]_vars

(* A logout presented with a token of the session that still decodes revokes
   the whole chain and no row of another session. *)
LogoutWithDecodableTokenRevokesChain ==
    [][\A token \in SessionRefreshTokens :
        (logout(token) /\ decode_token(token, now) = "ok")
        => /\ \A r \in session_of(token) :
                 \E r2 \in rts' : /\ r2.jti = r.jti
                                  /\ r2.revoked
                                  /\ (refresh_check(token_of(r2)))' = "RefreshRejected"
           /\ \A r \in rts \ session_of(token) : r \in rts']_vars

(* At and after expires_at a refresh is refused, by the codec, as RefreshRejected. *)
ExpiredRowRefusedByCodec ==
    resp.op = "refresh"
    => /\ \A r \in by_jti(resp.tok.jti) :
             (~r.revoked /\ now >= r.expires_at)
             => (resp.status = 401 /\ resp.detail = "RefreshRejected")
       /\ resp.status = 200
          => \A r \in by_jti(resp.tok.jti) : now < r.expires_at

(* The RefreshExpired answer is never given. *)
RefreshExpiredUnreachable == resp.detail # "RefreshExpired"

====
